---- MODULE Spec2Model ----
(***************************************************************************)
(* Veritas audit trail: the Merkle tree (src/veritas/merkle.py), the       *)
(* recorder (src/veritas/logger.py) and the independent verifier           *)
(* (src/veritas/verifier.py).                                              *)
(*                                                                         *)
(* Strings are TLA+ strings.  SHA-256 is modelled as a collision-free      *)
(* symbolic function: the digest of s is the text "H(" s ")".  All leaf    *)
(* contents are parenthesis-balanced, so a digest, and a concatenation of  *)
(* two digests, parses in one way only.                                    *)
(***************************************************************************)
EXTENDS Integers, Sequences, FiniteSets, TLC

(***************************************************************************)
(* Bounds of the model.                                                    *)
(***************************************************************************)
MaxLeaves == 5          \* leaves of a tree in the Merkle specification
MaxEvents == 2          \* events a recorder session holds
MaxTasks  == 2          \* tasks of the event loop that record events
MaxSteps  == 2          \* max_steps of a mission
MaxDocEvents == 3       \* events of a session in the documents specification

VARIABLES
    mt,             \* a MerkleTree grown with add_leaf: [leaves, tree]
    ct,             \* a MerkleTree made by the constructor from a list
    proof,          \* the last get_proof call on mt: [index, path]
    checked,        \* the last verify_proof call on mt: [leaf, ok, done]
    logs,           \* VeritasLogger._logs: the ActionLog entries, in order
    merkle_tree,    \* VeritasLogger._merkle_tree
    last_event_id,  \* VeritasLogger.last_event_id
    now,            \* the clock time.time() reads
    raised,         \* the exception the last recorder call let through
    original,       \* the document export_proofs wrote
    doc,            \* the document handed to the verifier
    result,         \* what verify_session did with doc
    wrapped_call,   \* the last call of a wrapped function, as its caller saw it
    subscribed_at,  \* events logged when a listener was handed over, or -1
    received,       \* the entry ids the listener was called with
    pc,             \* where each task of the event loop stands
    entry_of,       \* the local variable entry of each task's log_action
    running,        \* the task the event loop is running, or 0
    calls,          \* the calls of log_action that tasks have completed
    status,         \* VeritasAgent.status
    current_step,   \* the local variable current_step of run_mission
    mpc,            \* where run_mission stands
    response,       \* the brain's response of the step: text and its decoding
    tool_outcome,   \* what the tool dispatched last did
    mission_raised, \* the exception that left run_mission
    returned_root,  \* the value run_mission returned
    brain_calls,    \* the calls of brain.think of the mission
    stop,           \* the way the loop of run_mission was left
    cli             \* the last run of the verify command

merkleVars == <<mt, ct, proof, checked>>
loggerVars == <<logs, merkle_tree, last_event_id, now, raised>>
docVars    == <<original, doc, result>>
callVars   == <<wrapped_call, subscribed_at, received>>
taskVars   == <<pc, entry_of, running, calls>>
missionVars == <<status, current_step, mpc, response, tool_outcome,
                 mission_raised, returned_root, brain_calls, stop>>
runVars    == <<missionVars, cli>>
extVars    == <<callVars, taskVars, runVars>>
vars       == <<mt, ct, proof, checked, logs, merkle_tree, last_event_id,
                now, raised, original, doc, result, wrapped_call, subscribed_at,
                received, pc, entry_of, running, calls, status, current_step,
                mpc, response, tool_outcome, mission_raised, returned_root,
                brain_calls, stop, cli>>

(***************************************************************************)
(* merkle.py                                                               *)
(***************************************************************************)

\* MerkleTree._hash: hexdigest of sha256, collision-free.
hash(data) == "H(" \o data \o ")"

\* _build with an odd last node carried up unpaired instead of duplicated.
RECURSIVE next_level_promote(_, _)
next_level_promote(current_level, i) ==
    IF i > Len(current_level) THEN <<>>
    ELSE IF i + 1 <= Len(current_level)
         THEN <<hash(current_level[i] \o current_level[i + 1])>>
              \o next_level_promote(current_level, i + 2)
         ELSE <<current_level[i]>>

\* One round of the while loop of _build: the next level of current_level.
RECURSIVE next_level_from(_, _)
next_level_from(current_level, i) ==
    IF i > Len(current_level) THEN <<>>
    ELSE LET left  == current_level[i]
             right == IF i + 1 <= Len(current_level)
                      THEN current_level[i + 1]
                      ELSE left
         IN  <<hash(left \o right)>> \o next_level_from(current_level, i + 2)

\* The while loop of _build: the levels above current_level.
RECURSIVE levels_above(_)
levels_above(current_level) ==
    IF Len(current_level) > 1
    THEN LET next_level == next_level_from(current_level, 1)
         IN  <<next_level>> \o levels_above(next_level)
    ELSE <<>>

\* MerkleTree._build: self.tree from self.leaves.
build(leaves) ==
    IF leaves = <<>> THEN <<>>
    ELSE LET level0 == [i \in 1..Len(leaves) |-> hash(leaves[i])]
         IN  <<level0>> \o levels_above(level0)

\* MerkleTree.__init__(leaves).
NewTree(leaves) ==
    [leaves |-> leaves,
     tree   |-> IF leaves # <<>> THEN build(leaves) ELSE <<>>]

\* add_leaf that hashes the new leaf into level 0 and rebuilds nothing above.
add_leaf_no_rebuild(t, data) ==
    [leaves |-> Append(t.leaves, data),
     tree   |-> IF t.tree = <<>> THEN <<<<hash(data)>>>>
                ELSE [t.tree EXCEPT ![1] = Append(@, hash(data))]]

\* MerkleTree.add_leaf(data).
add_leaf(t, data) ==
    LET leaves == Append(t.leaves, data)
    IN  [leaves |-> leaves, tree |-> build(leaves)]

\* What add_leaf hands back to its caller: the method has no return
\* statement.
add_leaf_result(t, data) == [t |-> "none", v |-> ""]

\* The value None, where a digest is expected.
NoDigest == "None"

\* MerkleTree.get_root.
get_root(t) ==
    IF t.tree = <<>> THEN NoDigest
    ELSE t.tree[Len(t.tree)][1]

\* MerkleTree.get_proof(index); index counts from 0 as in the code.
RECURSIVE proof_from(_, _, _)
proof_from(tree, lv, index) ==
    IF lv > Len(tree) - 1 THEN <<>>
    ELSE LET level == tree[lv] IN
         IF index >= Len(level) THEN <<>>
         ELSE LET is_right_child == (index % 2 = 1)
                  sibling_index  == IF is_right_child THEN index - 1 ELSE index + 1
                  sibling_hash   == IF sibling_index < Len(level)
                                    THEN level[sibling_index + 1]
                                    ELSE level[index + 1]
              IN  <<[position |-> IF is_right_child THEN "left" ELSE "right",
                     data     |-> sibling_hash]>>
                  \o proof_from(tree, lv + 1, index \div 2)

\* get_proof with the sibling's side taken from the sibling, not the node.
get_proof_swapped(t, index) ==
    IF t.tree = <<>> THEN <<>>
    ELSE LET path == proof_from(t.tree, 1, index)
         IN  [k \in 1..Len(path) |->
                [position |-> IF path[k].position = "left" THEN "right" ELSE "left",
                 data     |-> path[k].data]]

get_proof(t, index) ==
    IF t.tree = <<>> THEN <<>>
    ELSE proof_from(t.tree, 1, index)

\* MerkleTree.verify_proof(leaf, proof, root).
RECURSIVE fold_proof(_, _, _)
fold_proof(current_hash, path, k) ==
    IF k > Len(path) THEN current_hash
    ELSE LET sibling == path[k].data
         IN  IF path[k].position = "left"
             THEN fold_proof(hash(sibling \o current_hash), path, k + 1)
             ELSE fold_proof(hash(current_hash \o sibling), path, k + 1)

verify_proof(leaf, path, root) ==
    fold_proof(hash(leaf), path, 1) = root

(***************************************************************************)
(* Python values, as far as the recorder and the verifier look at them.    *)
(* A value is [t, v]: its type and its text.                               *)
(***************************************************************************)
None_      == [t |-> "none", v |-> ""]
Str(s)     == [t |-> "str",  v |-> s]
Num(s)     == [t |-> "num",  v |-> s]       \* v: the digits
ListOf(s)  == [t |-> "list", v |-> s]       \* the list [s] of one string
DictOf(s)  == [t |-> "dict", v |-> s]       \* v: the items, as JSON text
Coroutine(s) == [t |-> "coroutine", v |-> s] \* v: what awaiting it gives

\* bool(x)
Truthy(x) ==
    CASE x.t = "none" -> FALSE
      [] x.t = "num"  -> x.v # "0"
      [] OTHER        -> x.v # ""

\* hash(x) is defined: x may be a member of a set.
Hashable(x) == x.t \notin {"list", "dict"}

\* x[:8] is defined.
Sliceable(x) == x.t \in {"str", "list"}

\* str(x), as an f-string prints it.
py_str(x) ==
    CASE x.t = "none" -> "None"
      [] x.t = "list" -> "['" \o x.v \o "']"
      [] x.t = "dict" -> "{" \o x.v \o "}"
      [] x.t = "coroutine" -> "<coroutine object at 0x1>"
      [] OTHER        -> x.v

(***************************************************************************)
(* json.dumps(obj, sort_keys=True)                                         *)
(***************************************************************************)

\* json.dumps of one value.  The strings of the model hold no character
\* that JSON escapes.
json_dumps_value(x) ==
    CASE x.t = "none" -> "null"
      [] x.t = "str"  -> "\"" \o x.v \o "\""
      [] x.t = "num"  -> x.v
      [] x.t = "list" -> "[\"" \o x.v \o "\"]"
      [] x.t = "dict" -> "{" \o x.v \o "}"

\* The keys of an event, in the order sort_keys gives them.
SortedKeys ==
    <<"basis_id", "event_type", "id", "input_params", "output_result",
      "timestamp", "tool_name">>

EventKeys == {SortedKeys[k] : k \in 1..Len(SortedKeys)}

RECURSIVE json_items(_, _)
json_items(d, keys) ==
    IF keys = <<>> THEN ""
    ELSE "\"" \o Head(keys) \o "\": " \o json_dumps_value(d[Head(keys)])
         \o (IF Len(keys) > 1 THEN ", " ELSE "")
         \o json_items(d, Tail(keys))

\* json.dumps with the keys in the order a dict happens to hold them
\* (here: the order of the fields of ActionLog), not sorted.
json_dumps_unsorted(d) ==
    LET FieldOrder == <<"id", "basis_id", "timestamp", "event_type",
                        "tool_name", "input_params", "output_result">>
    IN  "{" \o json_items(d, SelectSeq(FieldOrder, LAMBDA k : k \in DOMAIN d))
        \o "}"

\* json.dumps(d, sort_keys=True) of a dict d with keys among EventKeys.
json_dumps(d) ==
    "{" \o json_items(d, SelectSeq(SortedKeys, LAMBDA k : k \in DOMAIN d))
    \o "}"

(***************************************************************************)
(* logger.py                                                               *)
(***************************************************************************)

\* str(uuid.uuid4()): the n-th identifier drawn; no two draws agree.
uuid4(n) == Str("u" \o ToString(n))

\* ActionLog(...): id and timestamp from their default factories; the
\* timestamp is a float, the clock's reading.
ActionLog(n, time, tool_name, params, result_, event_type, basis_id) ==
    [id            |-> uuid4(n),
     basis_id      |-> basis_id,
     timestamp     |-> Num(ToString(time) \o ".0"),
     event_type    |-> Str(event_type),
     tool_name     |-> Str(tool_name),
     input_params  |-> params,
     output_result |-> result_]

\* ActionLog.model_dump(mode='json'): the dict of the fields.
model_dump(entry) == [k \in EventKeys |-> entry[k]]

\* to_hashable_json without sort_keys.
to_hashable_json_unsorted(entry) == json_dumps_unsorted(model_dump(entry))

\* ActionLog.to_hashable_json
to_hashable_json(entry) == json_dumps(model_dump(entry))

\* get_current_root without the "0x0" of an empty tree.
get_current_root_bare(tree) == get_root(tree)

\* VeritasLogger.get_current_root
get_current_root(tree) ==
    IF get_root(tree) = NoDigest THEN "0x0" ELSE get_root(tree)

\* log_action that puts the new entry in front of the log.
log_action_prepend(tool_name, params, result_, event_type, basis_id) ==
    LET entry == ActionLog(Len(logs) + 1, now, tool_name, params, result_,
                           event_type, basis_id)
    IN  /\ logs' = <<entry>> \o logs
        /\ last_event_id' = entry.id
        /\ merkle_tree' = add_leaf(merkle_tree, to_hashable_json(entry))
        /\ now' = now + 1

\* log_action that sets last_event_id for the first event only.
log_action_keep_first(tool_name, params, result_, event_type, basis_id) ==
    LET entry == ActionLog(Len(logs) + 1, now, tool_name, params, result_,
                           event_type, basis_id)
    IN  /\ logs' = Append(logs, entry)
        /\ last_event_id' = IF logs = <<>> THEN entry.id ELSE last_event_id
        /\ merkle_tree' = add_leaf(merkle_tree, to_hashable_json(entry))
        /\ now' = now + 1

\* VeritasLogger.log_action
log_action(tool_name, params, result_, event_type, basis_id) ==
    LET entry == ActionLog(Len(logs) + 1, now, tool_name, params, result_,
                           event_type, basis_id)
    IN  /\ logs' = Append(logs, entry)
        /\ last_event_id' = entry.id
        /\ merkle_tree' = add_leaf(merkle_tree, to_hashable_json(entry))
        /\ now' = now + 1

\* export_proofs that writes the newest event first.
export_proofs_newest_first ==
    [session_root |-> Str(get_current_root(merkle_tree)),
     event_count  |-> Len(logs),
     logs         |-> [i \in 1..Len(logs) |->
                         model_dump(logs[Len(logs) + 1 - i])],
     leaf_hashes  |-> <<>>]

\* The document export_proofs writes.  Its "timestamp" entry, which nothing
\* reads, is left out; leaf_hashes is the verifier's default [] for the key
\* the export does not hold.
export_proofs ==
    [session_root |-> Str(get_current_root(merkle_tree)),
     event_count  |-> Len(logs),
     logs         |-> [i \in 1..Len(logs) |-> model_dump(logs[i])],
     leaf_hashes  |-> <<>>]

\* [str(a) for a in args], as the text json.dumps gives for its items.
RECURSIVE str_list(_)
str_list(args) ==
    IF args = <<>> THEN ""
    ELSE "\"" \o py_str(Head(args)) \o "\""
         \o (IF Len(args) > 1 THEN ", " ELSE "")
         \o str_list(Tail(args))

\* The keyword arguments of a call: basis_id, or none at all.
NoKwargs == [has_basis_id |-> FALSE, basis_id |-> None_]
Kwargs(basis_id) == [has_basis_id |-> TRUE, basis_id |-> basis_id]

\* wrapper that hands back the text it logged instead of the result.
wrapper_returns_text(name, event_type, args, kwargs, f_result) ==
    [tool_name     |-> name,
     input_params  |-> DictOf("\"args\": [" \o str_list(args)
                              \o "], \"kwargs\": {}"),
     output_result |-> Str(py_str(f_result)),
     event_type    |-> event_type,
     basis_id      |-> IF kwargs.has_basis_id THEN kwargs.basis_id ELSE None_,
     returned      |-> Str(py_str(f_result))]

\* wrap(f, tool_name=name, event_type=event_type): the wrapper called with
\* args and kwargs, where f returns f_result: the arguments of the
\* log_action call it makes and the value it returns.
wrapper(name, event_type, args, kwargs, f_result) ==
    [tool_name     |-> name,
     input_params  |-> DictOf("\"args\": [" \o str_list(args)
                              \o "], \"kwargs\": {}"),
     output_result |-> Str(py_str(f_result)),
     event_type    |-> event_type,
     basis_id      |-> IF kwargs.has_basis_id THEN kwargs.basis_id ELSE None_,
     returned      |-> f_result]

(***************************************************************************)
(* agent.py                                                                *)
(***************************************************************************)

\* execute_action that passes no basis_id to the wrapped function.
execute_action_no_basis(tool_name, args, f_result) ==
    wrapper(tool_name, "ACTION", args, NoKwargs, f_result)

\* VeritasAgent.execute_action(tool_name, func, *args) for a func that is
\* not a coroutine function and returns f_result.
execute_action(tool_name, args, f_result) ==
    LET basis_id == last_event_id
    IN  wrapper(tool_name, "ACTION", args, Kwargs(basis_id), f_result)

\* self.tools: the names of the registry, and whether tool.func is a
\* coroutine function (async def) or a plain one.
Registry == {"get_balance", "aave_supply"}
IsCoroutineFunction(tool_name) == tool_name = "aave_supply"

\* The texts the brain answers with.  A quote is written as json.dumps
\* writes it inside a string, with its backslash.
BrainTexts ==
    {"not json", "42", "{}",
     "{\\\"finished\\\": true}",
     "{\\\"tool\\\": \\\"get_balance\\\", \\\"finished\\\": true}",
     "{\\\"tool\\\": \\\"get_balance\\\"}",
     "{\\\"tool\\\": \\\"aave_supply\\\"}",
     "{\\\"tool\\\": \\\"ghost_tool\\\"}"}

\* json.loads(clean_json) on these texts: it raises (loaded = FALSE), or
\* gives a value that is a dict or not; finished and tool are
\* decision.get("finished") and decision.get("tool").
Loaded(is_dict, finished, tool) ==
    [loaded |-> TRUE, is_dict |-> is_dict, finished |-> finished, tool |-> tool]

json_loads(text) ==
    CASE text = "not json" ->
            [loaded |-> FALSE, is_dict |-> FALSE, finished |-> None_,
             tool |-> None_]
      [] text = "42" -> Loaded(FALSE, None_, None_)
      [] text = "{}" -> Loaded(TRUE, None_, None_)
      [] text = "{\\\"finished\\\": true}" -> Loaded(TRUE, Num("1"), None_)
      [] text = "{\\\"tool\\\": \\\"get_balance\\\", \\\"finished\\\": true}" ->
            Loaded(TRUE, Num("1"), Str("get_balance"))
      [] text = "{\\\"tool\\\": \\\"get_balance\\\"}" ->
            Loaded(TRUE, None_, Str("get_balance"))
      [] text = "{\\\"tool\\\": \\\"aave_supply\\\"}" ->
            Loaded(TRUE, None_, Str("aave_supply"))
      [] text = "{\\\"tool\\\": \\\"ghost_tool\\\"}" ->
            Loaded(TRUE, None_, Str("ghost_tool"))

\* run_mission, lines 160-166: the THOUGHT event of a step, without the
\* basis_id.
log_thought_unlinked(response_text) ==
    log_action("Brain", DictOf("\"objective\": \"mission\""),
               Str(response_text), "THOUGHT", None_)

\* run_mission, lines 160-166: the raw response is recorded.
log_thought(response_text) ==
    log_action("Brain", DictOf("\"objective\": \"mission\""),
               Str(response_text), "THOUGHT", last_event_id)

\* run_mission, lines 180-188: json.loads raised.
log_parse_error(response_text) ==
    log_action("System",
               DictOf("\"error\": \"Expecting value\", \"raw\": \""
                      \o response_text \o "\""),
               Str("JSON Parsing Failed"), "ERROR", None_)

\* What a dispatched tool may do.  A plain function runs on the loop's
\* thread inside call_tool: it returns, within the 15 s or later, or raises.
\* A coroutine function returns a coroutine, which wrapper logs and hands
\* back and which nothing awaits.
ToolOutcomes(tool_name) ==
    IF IsCoroutineFunction(tool_name) THEN {"coroutine"}
    ELSE {"returned", "returned_late", "raised", "raised_timeout"}

\* The handler of a tool's exception that records nothing.
on_tool_exception_silent(tool_name, outcome) ==
    UNCHANGED <<logs, merkle_tree, last_event_id, now>>

\* run_mission, lines 200-217: the handlers of asyncio.TimeoutError and of
\* Exception around the dispatch.
on_tool_exception(tool_name, outcome) ==
    log_action(tool_name, DictOf(""),
               IF outcome = "raised_timeout"
               THEN Str("Error: Tool execution timed out after 15s")
               ELSE Str("Error: boom"),
               "ERROR", last_event_id)

\* run_mission, line 199: await asyncio.wait_for(self.call_tool(tool_name),
\* timeout=15.0) and its handlers.  call_tool holds no point where the task
\* is suspended, so the deadline passes unnoticed while a plain tool runs.
dispatch(tool_name, outcome) ==
    CASE outcome \in {"returned", "returned_late"} ->
            LET w == execute_action(tool_name, <<>>, Str("done"))
            IN  log_action(w.tool_name, w.input_params, w.output_result,
                           w.event_type, w.basis_id)
      [] outcome = "coroutine" ->
            LET w == execute_action(tool_name, <<>>, Coroutine("done"))
            IN  log_action(w.tool_name, w.input_params, w.output_result,
                           w.event_type, w.basis_id)
      [] outcome \in {"raised", "raised_timeout"} ->
            on_tool_exception(tool_name, outcome)

(***************************************************************************)
(* verifier.py                                                             *)
(***************************************************************************)

Detail(kind, i, a) == [kind |-> kind, i |-> i, a |-> a]

Returned(is_valid, message, details) ==
    [status |-> "returned", valid |-> is_valid, message |-> message,
     details |-> details, error |-> ""]

Raised(error) ==
    [status |-> "raised", valid |-> FALSE, message |-> "",
     details |-> <<>>, error |-> error]

\* calculated_root != claimed_root, a str against any value.
SameDigest(digest, x) == x.t = "str" /\ x.v = digest

\* log_entry.get(key)
get(log_entry, key) ==
    IF key \in DOMAIN log_entry THEN log_entry[key] ELSE None_

\* The first loop of verify_session from entry i on: the tree of the
\* re-serialized entries and the row-level findings.
RECURSIVE verify_rows(_, _, _, _)
verify_rows(entries, claimed_leaves, i, acc) ==
    IF i > Len(entries) THEN acc
    ELSE LET log_entry       == entries[i]
             hashable_data   == json_dumps(log_entry)
             calculated_leaf == hash(hashable_data)
             tree            == add_leaf(acc.tree, hashable_data)
             name            == py_str(get(log_entry, "tool_name"))
         IN  IF claimed_leaves # <<>> /\ i - 1 < Len(claimed_leaves)
             THEN IF calculated_leaf # claimed_leaves[i]
                  THEN verify_rows(entries, claimed_leaves, i + 1,
                         [tree |-> tree,
                          details |-> acc.details \o
                             <<Detail("TAMPER DETECTED", i - 1, name),
                               Detail("Expected", i - 1, claimed_leaves[i]),
                               Detail("Found", i - 1, calculated_leaf)>>,
                          row_integrity_failed |-> TRUE])
                  ELSE verify_rows(entries, claimed_leaves, i + 1,
                         [tree |-> tree,
                          details |-> Append(acc.details,
                                        Detail("Verified Log", i - 1, name)),
                          row_integrity_failed |-> acc.row_integrity_failed])
             ELSE verify_rows(entries, claimed_leaves, i + 1,
                    [acc EXCEPT !.tree = tree])

\* event_ids = {log["id"] for log in logs}: the set, or the error of the
\* first entry that has no id or an unhashable one.
RECURSIVE collect_ids(_, _, _)
collect_ids(entries, i, ids) ==
    IF i > Len(entries) THEN [error |-> "", ids |-> ids]
    ELSE IF "id" \notin DOMAIN entries[i]
         THEN [error |-> "KeyError", ids |-> ids]
         ELSE IF ~Hashable(entries[i]["id"])
              THEN [error |-> "TypeError", ids |-> ids]
              ELSE collect_ids(entries, i + 1, ids \cup {entries[i]["id"]})

\* The second loop of verify_session from entry i on: the chain findings,
\* or the error of the first entry that raises.
RECURSIVE verify_chain(_, _, _, _)
verify_chain(entries, event_ids, i, acc) ==
    IF i > Len(entries) THEN acc
    ELSE LET log      == entries[i]
             basis_id == get(log, "basis_id")
         IN  IF Truthy(basis_id)
             THEN IF ~Hashable(basis_id)
                  THEN [acc EXCEPT !.error = "TypeError"]
                  ELSE IF basis_id \notin event_ids
                  THEN verify_chain(entries, event_ids, i + 1,
                         [acc EXCEPT
                            !.details = Append(@, Detail("Broken link", i - 1,
                                                         py_str(basis_id))),
                            !.valid_chain = FALSE])
                  ELSE IF "tool_name" \notin DOMAIN log
                  THEN [acc EXCEPT !.error = "KeyError"]
                  ELSE IF ~Sliceable(basis_id)
                  THEN [acc EXCEPT !.error = "TypeError"]
                  ELSE verify_chain(entries, event_ids, i + 1,
                         [acc EXCEPT
                            !.details = Append(@, Detail("Verified link", i - 1,
                                                         py_str(basis_id)))])
             ELSE IF get(log, "event_type") = Str("ACTION")
                  THEN IF "tool_name" \notin DOMAIN log
                       THEN [acc EXCEPT !.error = "KeyError"]
                       ELSE verify_chain(entries, event_ids, i + 1,
                              [acc EXCEPT
                                 !.details = Append(@, Detail("Warning", i - 1,
                                                   py_str(log["tool_name"])))])
                  ELSE verify_chain(entries, event_ids, i + 1, acc)

\* VeritasVerifier.verify_session(proof_data)
verify_session(proof_data) ==
    LET entries        == proof_data.logs
        claimed_root   == proof_data.session_root
        claimed_leaves == proof_data.leaf_hashes
    IN
    IF entries = <<>>
    THEN Returned(FALSE, "No logs found in proof file", <<>>)
    ELSE
    LET rows == verify_rows(entries, claimed_leaves, 1,
                  [tree |-> NewTree(<<>>), details |-> <<>>,
                   row_integrity_failed |-> FALSE])
        calculated_root == get_root(rows.tree)
        root_matches    == SameDigest(calculated_root, claimed_root)
        root_details ==
            IF ~root_matches
            THEN <<Detail("CRITICAL FAILURE", -1, ""),
                   Detail("Calculated", -1, calculated_root),
                   Detail("Claimed", -1, py_str(claimed_root))>>
            ELSE <<Detail("Merkle Root verified", -1, calculated_root)>>
        valid_root == root_matches /\ ~rows.row_integrity_failed
        collected  == collect_ids(entries, 1, {})
        chain == verify_chain(entries, collected.ids, 1,
                   [details |-> rows.details \o root_details,
                    valid_chain |-> TRUE, error |-> ""])
        is_valid == valid_root /\ chain.valid_chain
    IN
    IF ~root_matches /\ ~Sliceable(claimed_root)
    THEN Raised("TypeError")
    ELSE IF collected.error # "" THEN Raised(collected.error)
    ELSE IF chain.error # "" THEN Raised(chain.error)
    ELSE Returned(is_valid,
                  IF is_valid THEN "Session integrity verified"
                  ELSE "Session integrity verification FAILED",
                  chain.details)

(***************************************************************************)
(* cli.py                                                                  *)
(***************************************************************************)

\* word in text
Contains(text, word) ==
    \E i \in 1..(Len(text) - Len(word) + 1) :
        SubSeq(text, i, i + Len(word) - 1) = word

\* s[:8]
Prefix8(s) == SubSeq(s, 1, IF Len(s) < 8 THEN Len(s) ELSE 8)

\* The text of one detail, as the f-strings of verify_session write it.
detail_text(proof_data, d) ==
    CASE d.kind = "TAMPER DETECTED" ->
            "[red]TAMPER DETECTED[/red] in Log #" \o ToString(d.i)
               \o " (" \o d.a \o ")"
      [] d.kind = "Expected" -> "   Expected: " \o Prefix8(d.a) \o "..."
      [] d.kind = "Found"    -> "   Found:    " \o Prefix8(d.a) \o "..."
      [] d.kind = "Verified Log" ->
            "[green]Verified[/green] Log #" \o ToString(d.i) \o ": " \o d.a
      [] d.kind = "CRITICAL FAILURE" ->
            "[red]CRITICAL FAILURE:[/red] Merkle Root mismatch!"
      [] d.kind = "Calculated" -> "   Calculated: " \o Prefix8(d.a) \o "..."
      [] d.kind = "Claimed"    -> "   Claimed:    " \o Prefix8(d.a) \o "..."
      [] d.kind = "Merkle Root verified" -> "Merkle Root verified: " \o d.a
      [] d.kind = "Broken link" ->
            "[red]Broken link[/red] at log [" \o ToString(d.i)
               \o "]: basis_id " \o d.a \o " not found in session"
      [] d.kind = "Verified link" ->
            "Verified link: " \o py_str(proof_data.logs[d.i + 1].tool_name)
               \o " -> " \o Prefix8(d.a) \o "..."
      [] d.kind = "Warning" ->
            "[yellow]Warning:[/yellow] Action " \o d.a
               \o " has no linked observation"

\* The status column of a row, lines 48 to 50.
row_status(detail) ==
    IF Contains(detail, "FAILURE") \/ Contains(detail, "TAMPER")
    THEN "FAIL"
    ELSE IF Contains(detail, "Warning") THEN "WARN"
    ELSE IF Contains(detail, "Verified") \/ Contains(detail, "verified")
    THEN "PASS"
    ELSE "INFO"

\* The rows the loop over details adds from detail k on: one row for the
\* detail and, with --verbose, one for the content of the log a "Log #"
\* detail names, dropped when that log holds no output_result.  The
\* outputs of the sessions start with no brace, so they are shown as they
\* are.
RECURSIVE table_rows(_, _, _, _)
table_rows(proof_data, details, k, verbose) ==
    IF k > Len(details) THEN <<>>
    ELSE LET detail == detail_text(proof_data, details[k])
             entry  == proof_data.logs[details[k].i + 1]
             shown  ==
                 IF verbose /\ Contains(detail, "Log #")
                           /\ "output_result" \in DOMAIN entry
                 THEN <<[status |-> "",
                         check |-> "[dim]" \o py_str(entry.output_result)
                                           \o "[/dim]"]>>
                 ELSE <<>>
         IN  <<[status |-> row_status(detail), check |-> detail]>>
                \o shown
                \o table_rows(proof_data, details, k + 1, verbose)

\* The verify command has not run.
NoCli == [ran |-> FALSE, proof_file |-> "", verbose |-> FALSE,
          exit_code |-> 0, rows |-> <<>>, crashed |-> FALSE,
          report |-> [status |-> "none", valid |-> FALSE, message |-> "",
                      details |-> <<>>, error |-> ""]]

\* A verify command whose exit code is 0 whatever the verifier says.
verify_exit_zero(proof_file, proof_data, verbose) ==
    LET r == verify_session(proof_data)
    IN  [NoCli EXCEPT !.ran = TRUE, !.proof_file = proof_file,
                      !.verbose = verbose, !.report = r,
                      !.rows = table_rows(proof_data, r.details, 1, verbose)]

\* veritas verify proof_file [--verbose].  proof_file is "missing",
\* "unparsable" or "document", the file json.load reads as proof_data.
\* An exception of verify_session is caught nowhere: the interpreter ends
\* with a traceback and exit code 1, before any table is printed.
verify(proof_file, proof_data, verbose) ==
    IF proof_file \in {"missing", "unparsable"}
    THEN [NoCli EXCEPT !.ran = TRUE, !.proof_file = proof_file,
                       !.verbose = verbose, !.exit_code = 1]
    ELSE LET r == verify_session(proof_data)
         IN  IF r.status = "raised"
             THEN [NoCli EXCEPT !.ran = TRUE, !.proof_file = proof_file,
                                !.verbose = verbose, !.report = r,
                                !.exit_code = 1, !.crashed = TRUE]
             ELSE [NoCli EXCEPT !.ran = TRUE, !.proof_file = proof_file,
                                !.verbose = verbose, !.report = r,
                                !.rows = table_rows(proof_data, r.details,
                                                    1, verbose),
                                !.exit_code = IF r.valid THEN 0 ELSE 1]

(***************************************************************************)
(* The Merkle specification: leaves are drawn from LeafData, one tree is   *)
(* grown by add_leaf, one is made by the constructor, proofs are asked     *)
(* for and verified.                                                       *)
(***************************************************************************)

\* Leaf contents; the last one is the concatenation of two digests, the
\* content of an inner node.
LeafData == {"a", "b", hash("a") \o hash("b")}

NoProof == [index |-> -1, path |-> <<>>]
NoCheck == [leaf |-> "", ok |-> FALSE, done |-> FALSE]

InitMerkle ==
    /\ mt = NewTree(<<>>)
    /\ ct = NewTree(<<>>)
    /\ proof = NoProof
    /\ checked = NoCheck

\* mt.add_leaf(data)
AddLeaf(data) ==
    /\ Len(mt.leaves) < MaxLeaves
    /\ mt' = add_leaf(mt, data)
    /\ proof' = NoProof
    /\ checked' = NoCheck
    /\ UNCHANGED <<ct, loggerVars, docVars, extVars>>

\* ct = MerkleTree(list of the leaves mt holds, or of one more leaf)
Construct(data) ==
    /\ Len(mt.leaves) < MaxLeaves
    /\ ct' = NewTree(Append(mt.leaves, data))
    /\ UNCHANGED <<mt, proof, checked, loggerVars, docVars, extVars>>

ConstructSame ==
    /\ ct' = NewTree(mt.leaves)
    /\ ct' # ct
    /\ UNCHANGED <<mt, proof, checked, loggerVars, docVars, extVars>>

\* proof = mt.get_proof(index)
GetProof(index) ==
    /\ proof' = [index |-> index, path |-> get_proof(mt, index)]
    /\ proof' # proof
    /\ checked' = NoCheck
    /\ UNCHANGED <<mt, ct, loggerVars, docVars, extVars>>

\* mt.verify_proof(leaf, proof, mt.get_root())
VerifyProof(leaf) ==
    /\ proof # NoProof
    /\ checked' = [leaf |-> leaf, done |-> TRUE,
                   ok |-> verify_proof(leaf, proof.path, get_root(mt))]
    /\ checked' # checked
    /\ UNCHANGED <<mt, ct, proof, loggerVars, docVars, extVars>>

NextMerkle ==
    \/ \E data \in LeafData : AddLeaf(data)
    \/ \E data \in LeafData : Construct(data)
    \/ ConstructSame
    \/ \E index \in 0..MaxLeaves : GetProof(index)
    \/ \E leaf \in LeafData : VerifyProof(leaf)

(***************************************************************************)
(* The recorder specification: a session is recorded, exported, the        *)
(* exported document is tampered with or not, and verified.                *)
(***************************************************************************)

ToolNames  == {"tool_a"}
EventTypes == {"ACTION", "OBSERVATION"}

\* An identifier no event of a session carries.
GhostId == Str("u0")

IdsOf(entries) == {entries[i].id : i \in 1..Len(entries)}

\* The basis_id a caller may pass: none, the id of a recorded event, or an
\* id that was never recorded.
BasisChoices == {None_, GhostId} \cup IdsOf(logs)

NoDoc == [session_root |-> None_, event_count |-> -1, logs |-> <<>>,
          leaf_hashes |-> <<>>]

NoResult == [status |-> "none", valid |-> FALSE, message |-> "",
             details |-> <<>>, error |-> ""]

InitRecorder ==
    /\ logs = <<>>
    /\ merkle_tree = NewTree(<<>>)
    /\ last_event_id = None_
    /\ now = 1
    /\ raised = ""
    /\ original = NoDoc
    /\ doc = NoDoc
    /\ result = NoResult

\* No wrapped function was called yet.
NoCall == [via |-> "none", name |-> "", event_type |-> "", args |-> <<>>,
           explicit |-> FALSE, basis |-> None_, f_result |-> None_,
           returned |-> None_, last_before |-> None_, index |-> 0]

InitCalls ==
    /\ wrapped_call = NoCall
    /\ subscribed_at = -1
    /\ received = <<>>

Tasks == 1..MaxTasks

\* The local variable entry of a log_action that has not run.
NoEntry == ActionLog(0, 0, "", None_, None_, "", None_)

InitTasks ==
    /\ pc = [t \in Tasks |-> "idle"]
    /\ entry_of = [t \in Tasks |-> NoEntry]
    /\ running = 0
    /\ calls = 0

InitMission ==
    /\ status = "idle"
    /\ current_step = 0
    /\ mpc = "idle"
    /\ response = ""
    /\ tool_outcome = ""
    /\ mission_raised = ""
    /\ returned_root = ""
    /\ brain_calls = 0
    /\ stop = ""

InitCli == cli = NoCli

Init ==
    /\ InitMerkle /\ InitRecorder /\ InitCalls /\ InitTasks
    /\ InitMission /\ InitCli

\* The session ends with its export: the recorder is called until the
\* document is written, the document is handled after that.
SessionOpen == original = NoDoc

\* logger.log_action(tool_name, {}, "ok", event_type, basis_id)
LogAction(tool_name, event_type, basis_id) ==
    /\ SessionOpen
    /\ Len(logs) < MaxEvents
    /\ log_action(tool_name, DictOf(""), Str("ok"), event_type, basis_id)
    /\ raised' = ""
    /\ UNCHANGED <<merkleVars, docVars, extVars>>

\* logger.observe(source, {}, "ok")
Observe(source) ==
    /\ SessionOpen
    /\ Len(logs) < MaxEvents
    /\ log_action(source, DictOf(""), Str("ok"), "OBSERVATION", None_)
    /\ raised' = ""
    /\ UNCHANGED <<merkleVars, docVars, extVars>>

\* logger.act(tool, {}, "ok", basis_id)
Act(tool, basis_id) ==
    /\ SessionOpen
    /\ Len(logs) < MaxEvents
    /\ log_action(tool, DictOf(""), Str("ok"), "ACTION", basis_id)
    /\ raised' = ""
    /\ UNCHANGED <<merkleVars, docVars, extVars>>

\* A call, without positional arguments, of logger.wrap(f, tool_name=name,
\* event_type=event_type) where f returns "done"; basis_id is the keyword
\* argument of that name, None_ when the caller passes none.
WrappedCall(name, event_type, basis_id) ==
    /\ SessionOpen
    /\ Len(logs) < MaxEvents
    /\ log_action(name, DictOf("\"args\": [], \"kwargs\": {}"), Str("done"),
                  event_type, basis_id)
    /\ raised' = ""
    /\ UNCHANGED <<merkleVars, docVars, extVars>>

\* The calls of wrapped functions: an observation, and an action that names
\* no basis or the last event.
WrappedCalls ==
    {[event_type |-> "OBSERVATION", basis_id |-> None_],
     [event_type |-> "ACTION", basis_id |-> None_],
     [event_type |-> "ACTION", basis_id |-> last_event_id]}

\* The same call where f raises: wrapper has no handler around f, nothing
\* is recorded and the exception reaches the caller.
WrappedCallRaises ==
    /\ SessionOpen
    /\ raised = ""
    /\ raised' = "Exception"
    /\ UNCHANGED <<logs, merkle_tree, last_event_id, now, merkleVars, docVars,
                   extVars>>

\* logger.export_proofs(filepath), and the file read back with json.load.
Export ==
    /\ SessionOpen
    /\ original' = export_proofs
    /\ doc' = export_proofs
    /\ result' = NoResult
    /\ raised' = ""
    /\ UNCHANGED <<merkleVars, logs, merkle_tree, last_event_id, now, extVars>>

\* The values a field of the document is overwritten with.
TamperValues(key) ==
    CASE key = "basis_id" ->
           {None_, Str(""), GhostId, ListOf("u1")}
           \cup {uuid4(n) : n \in 1..MaxEvents}
      [] key = "id" ->
           {GhostId, ListOf("u1")} \cup {uuid4(n) : n \in 1..MaxEvents}
      [] OTHER -> {Str("x")}

\* The value of one field of one event of the document is changed.
TamperField(i, key, val) ==
    /\ doc # NoDoc
    /\ doc.logs = original.logs
    /\ i \in 1..Len(doc.logs)
    /\ key \in DOMAIN doc.logs[i]
    /\ doc.logs[i][key] # val
    /\ doc' = [doc EXCEPT !.logs[i][key] = val]
    /\ result' = NoResult
    /\ UNCHANGED <<merkleVars, loggerVars, original, extVars>>

\* One field of one event of the document is removed.
RemoveField(i, key) ==
    /\ doc # NoDoc
    /\ doc.logs = original.logs
    /\ i \in 1..Len(doc.logs)
    /\ key \in DOMAIN doc.logs[i]
    /\ doc' = [doc EXCEPT !.logs[i] =
                  [k \in (DOMAIN doc.logs[i]) \ {key} |-> doc.logs[i][k]]]
    /\ result' = NoResult
    /\ UNCHANGED <<merkleVars, loggerVars, original, extVars>>

\* session_root is removed from the document or set to null.
NullRoot ==
    /\ doc # NoDoc
    /\ doc.session_root # None_
    /\ doc' = [doc EXCEPT !.session_root = None_]
    /\ result' = NoResult
    /\ UNCHANGED <<merkleVars, loggerVars, original, extVars>>

\* The root of the tree over the entries of a document, as anyone computes it.
RootOver(entries) ==
    get_root(NewTree([i \in 1..Len(entries) |-> json_dumps(entries[i])]))

\* session_root is replaced by the root of the document's present entries.
ForgeRoot ==
    /\ doc # NoDoc
    /\ doc.logs # <<>>
    /\ doc.session_root # Str(RootOver(doc.logs))
    /\ doc' = [doc EXCEPT !.session_root = Str(RootOver(doc.logs))]
    /\ result' = NoResult
    /\ UNCHANGED <<merkleVars, loggerVars, original, extVars>>

\* leaf_hashes is added to the document: the digests of its present entries.
AttachLeafHashes ==
    /\ doc # NoDoc
    /\ doc.logs # <<>>
    /\ doc.leaf_hashes = <<>>
    /\ doc' = [doc EXCEPT !.leaf_hashes =
                  [i \in 1..Len(doc.logs) |-> hash(json_dumps(doc.logs[i]))]]
    /\ result' = NoResult
    /\ UNCHANGED <<merkleVars, loggerVars, original, extVars>>

\* VeritasVerifier.verify_session(doc)
Verify ==
    /\ doc # NoDoc
    /\ result.status = "none"
    /\ result' = verify_session(doc)
    /\ UNCHANGED <<merkleVars, loggerVars, original, doc, extVars>>

Next ==
    \/ \E tool \in ToolNames, event_type \in EventTypes, basis_id \in BasisChoices :
          LogAction(tool, event_type, basis_id)
    \/ \E source \in ToolNames : Observe(source)
    \/ \E tool \in ToolNames, basis_id \in BasisChoices : Act(tool, basis_id)
    \/ \E call \in WrappedCalls :
          WrappedCall("wrapped_tool", call.event_type, call.basis_id)
    \/ WrappedCallRaises
    \/ Export
    \/ \E i \in 1..MaxEvents, key \in EventKeys :
          \E val \in TamperValues(key) : TamperField(i, key, val)
    \/ \E i \in 1..MaxEvents, key \in EventKeys : RemoveField(i, key)
    \/ NullRoot
    \/ ForgeRoot
    \/ AttachLeafHashes
    \/ Verify

Spec == Init /\ [][Next]_vars

(***************************************************************************)
(* The calls specification: wrapped functions are called, directly and     *)
(* through VeritasAgent.execute_action, and a listener is handed to the    *)
(* recorder.                                                               *)
(***************************************************************************)

\* The calls of the wrapped function: its positional arguments and what
\* calling it returns.  The last is an async def: calling it returns a
\* coroutine object, which gives 10 when it is awaited.
CallCases ==
    {[args |-> <<Num("1"), Num("2")>>, f_result |-> Num("3")],
     [args |-> <<Str("ETH")>>,         f_result |-> Str("tx")],
     [args |-> <<>>,                   f_result |-> None_],
     [args |-> <<Num("5")>>,           f_result |-> Coroutine("10")]}

\* The keyword arguments a caller passes: none, or a basis_id.
KwargsChoices ==
    {NoKwargs, Kwargs(None_), Kwargs(GhostId)}
    \cup {Kwargs(id) : id \in IdsOf(logs)}

\* wrapped(*c.args, **kwargs), wrapped = logger.wrap(f, tool_name=name,
\* event_type=event_type), where f returns c.f_result.
CallWrapped(name, event_type, c, kwargs) ==
    /\ Len(logs) < MaxEvents
    /\ LET w == wrapper(name, event_type, c.args, kwargs, c.f_result)
       IN  /\ log_action(w.tool_name, w.input_params, w.output_result,
                         w.event_type, w.basis_id)
           /\ wrapped_call' = [via |-> "wrap", name |-> name,
                       event_type |-> event_type, args |-> c.args,
                       explicit |-> kwargs.has_basis_id,
                       basis |-> kwargs.basis_id, f_result |-> c.f_result,
                       returned |-> w.returned,
                       last_before |-> last_event_id,
                       index |-> Len(logs) + 1]
    /\ raised' = ""
    /\ UNCHANGED <<merkleVars, runVars, docVars, subscribed_at, received, taskVars>>

\* await agent.execute_action(tool_name, f, *c.args), f as above.
CallExecuteAction(tool_name, c) ==
    /\ Len(logs) < MaxEvents
    /\ LET w == execute_action(tool_name, c.args, c.f_result)
       IN  /\ log_action(w.tool_name, w.input_params, w.output_result,
                         w.event_type, w.basis_id)
           /\ wrapped_call' = [via |-> "execute_action", name |-> tool_name,
                       event_type |-> "ACTION", args |-> c.args,
                       explicit |-> FALSE, basis |-> None_,
                       f_result |-> c.f_result, returned |-> w.returned,
                       last_before |-> last_event_id,
                       index |-> Len(logs) + 1]
    /\ raised' = ""
    /\ UNCHANGED <<merkleVars, runVars, docVars, subscribed_at, received, taskVars>>

\* logger.log_action("tool_a", {}, "result_a")
LogDirect ==
    /\ Len(logs) < MaxEvents
    /\ log_action("tool_a", DictOf(""), Str("result_a"), "ACTION", None_)
    /\ raised' = ""
    /\ UNCHANGED <<merkleVars, runVars, docVars, callVars, taskVars>>

\* logger.listeners.append(listener): VeritasLogger has no attribute
\* listeners, the statement raises AttributeError and nothing is registered.
\* log_action, which calls no listener, leaves received alone.
AppendListener ==
    /\ subscribed_at = -1
    /\ subscribed_at' = Len(logs)
    /\ raised' = "AttributeError"
    /\ UNCHANGED <<merkleVars, runVars, docVars, logs, merkle_tree, last_event_id, now,
                   wrapped_call, received, taskVars>>

NextCalls ==
    \/ \E event_type \in EventTypes, c \in CallCases, kwargs \in KwargsChoices :
          CallWrapped("wrapped_tool", event_type, c, kwargs)
    \/ \E c \in CallCases : CallExecuteAction("tool_a", c)
    \/ LogDirect
    \/ AppendListener

SpecCalls == Init /\ [][NextCalls]_vars

(***************************************************************************)
(* The tasks specification: tasks of one asyncio event loop record events. *)
(* The loop runs one task at a time and changes task only where the        *)
(* running task awaits.                                                    *)
(***************************************************************************)

\* The event loop is free to run other tasks at every statement.
AwaitPoint_everywhere(p) == TRUE

\* The places where a task awaits.  log_action and add_leaf hold no await:
\* a task that entered log_action leaves it before another task runs.
AwaitPoint(p) == p \in {"idle", "awaiting"}

\* The loop may run task t.
CanRun(t) == running \in {0, t}

\* The task the loop is running when t has moved to p.
running_after(t, p) == IF AwaitPoint(p) THEN 0 ELSE t

\* The events in the log and the calls of log_action still to come.
InFlight == Len(logs) + Cardinality({t \in Tasks : pc[t] \in {"awaiting", "entry"}})

\* Task t starts a tool and awaits.
StartTool(t) ==
    /\ CanRun(t)
    /\ pc[t] = "idle"
    /\ InFlight < MaxEvents
    /\ pc' = [pc EXCEPT ![t] = "awaiting"]
    /\ running' = running_after(t, "awaiting")
    /\ UNCHANGED <<merkleVars, runVars, loggerVars, docVars, callVars, entry_of, calls>>

\* The tool of task t is done: the task is resumed and calls log_action.
Resume(t) ==
    /\ CanRun(t)
    /\ pc[t] = "awaiting"
    /\ pc' = [pc EXCEPT ![t] = "entry"]
    /\ running' = running_after(t, "entry")
    /\ UNCHANGED <<merkleVars, runVars, loggerVars, docVars, callVars, entry_of, calls>>

\* log_action(tool_name, {}, "ok", event_type, basis_id):
\* entry = ActionLog(...); self._logs.append(entry)
AppendEntry(t, tool_name, event_type, basis_id) ==
    /\ CanRun(t)
    /\ pc[t] = "entry"
    /\ LET entry == ActionLog(Len(logs) + 1, now, tool_name, DictOf(""),
                              Str("ok"), event_type, basis_id)
       IN  /\ entry_of' = [entry_of EXCEPT ![t] = entry]
           /\ logs' = Append(logs, entry)
    /\ now' = now + 1
    /\ pc' = [pc EXCEPT ![t] = "set_last"]
    /\ running' = running_after(t, "set_last")
    /\ UNCHANGED <<merkleVars, runVars, docVars, callVars, merkle_tree, last_event_id,
                   raised, calls>>

\* log_action: self.last_event_id = entry.id
SetLastEventId(t) ==
    /\ CanRun(t)
    /\ pc[t] = "set_last"
    /\ last_event_id' = entry_of[t].id
    /\ pc' = [pc EXCEPT ![t] = "add_leaf"]
    /\ running' = running_after(t, "add_leaf")
    /\ UNCHANGED <<merkleVars, runVars, docVars, callVars, logs, merkle_tree, now,
                   raised, entry_of, calls>>

\* log_action: self._merkle_tree.add_leaf(entry.to_hashable_json()), and
\* the return to the task, which goes on to its next await.
AddEntryLeaf(t) ==
    /\ CanRun(t)
    /\ pc[t] = "add_leaf"
    /\ merkle_tree' = add_leaf(merkle_tree, to_hashable_json(entry_of[t]))
    /\ calls' = calls + 1
    /\ pc' = [pc EXCEPT ![t] = "idle"]
    /\ running' = running_after(t, "idle")
    /\ UNCHANGED <<merkleVars, runVars, docVars, callVars, logs, last_event_id, now,
                   raised, entry_of>>

NextTasks ==
    \/ \E t \in Tasks : StartTool(t)
    \/ \E t \in Tasks : Resume(t)
    \/ \E t \in Tasks, tool \in ToolNames, event_type \in EventTypes,
          basis_id \in {None_, last_event_id} :
          AppendEntry(t, tool, event_type, basis_id)
    \/ \E t \in Tasks : SetLastEventId(t)
    \/ \E t \in Tasks : AddEntryLeaf(t)

SpecTasks == Init /\ [][NextTasks]_vars

(***************************************************************************)
(* The mission specification: one call of VeritasAgent.run_mission.        *)
(***************************************************************************)

\* What a step of run_mission leaves alone besides the recorder and its own
\* variables.
otherVars == <<merkleVars, docVars, callVars, taskVars, cli, raised>>

\* run_mission is called: self.status = "running"; current_step = 0
StartMission ==
    /\ mpc = "idle"
    /\ status' = "running"
    /\ current_step' = 0
    /\ mpc' = "loop"
    /\ UNCHANGED <<otherVars, logs, merkle_tree, last_event_id, now, response,
                   tool_outcome, mission_raised, returned_root, brain_calls,
                   stop>>

\* while current_step < max_steps: current_step += 1
EnterStep ==
    /\ mpc = "loop"
    /\ current_step < MaxSteps
    /\ current_step' = current_step + 1
    /\ mpc' = "think"
    /\ UNCHANGED <<otherVars, logs, merkle_tree, last_event_id, now, status,
                   response, tool_outcome, mission_raised, returned_root,
                   brain_calls, stop>>

\* The loop ends with its condition false.
StepLimit ==
    /\ mpc = "loop"
    /\ ~(current_step < MaxSteps)
    /\ stop' = "step_limit"
    /\ mpc' = "finish"
    /\ UNCHANGED <<otherVars, logs, merkle_tree, last_event_id, now, status,
                   current_step, response, tool_outcome, mission_raised,
                   returned_root, brain_calls>>

\* response_text = await self.brain.think(...) gives a text.
BrainAnswers(text) ==
    /\ mpc = "think"
    /\ response' = text
    /\ brain_calls' = brain_calls + 1
    /\ mpc' = "log_thought"
    /\ UNCHANGED <<otherVars, logs, merkle_tree, last_event_id, now, status,
                   current_step, tool_outcome, mission_raised, returned_root,
                   stop>>

\* await self.brain.think(...) raises: no handler is around line 156, the
\* exception leaves run_mission and line 223 is not reached.
BrainRaises ==
    /\ mpc = "think"
    /\ brain_calls' = brain_calls + 1
    /\ mission_raised' = "RuntimeError"
    /\ mpc' = "crashed"
    /\ UNCHANGED <<otherVars, logs, merkle_tree, last_event_id, now, status,
                   current_step, response, tool_outcome, returned_root, stop>>

\* Lines 159-168.
LogThought ==
    /\ mpc = "log_thought"
    /\ log_thought(response)
    /\ mpc' = "parse"
    /\ UNCHANGED <<otherVars, status, current_step, response, tool_outcome,
                   mission_raised, returned_root, brain_calls, stop>>

\* Lines 170-188: json.loads raises; the ERROR event, and break.
ParseFails ==
    /\ mpc = "parse"
    /\ ~json_loads(response).loaded
    /\ log_parse_error(response)
    /\ stop' = "parse_error"
    /\ mpc' = "finish"
    /\ UNCHANGED <<otherVars, status, current_step, response, tool_outcome,
                   mission_raised, returned_root, brain_calls>>

\* Line 190: json.loads gave a value that is no dict; decision.get raises
\* AttributeError outside every handler.
DecisionNotDict ==
    /\ mpc = "parse"
    /\ json_loads(response).loaded
    /\ ~json_loads(response).is_dict
    /\ mission_raised' = "AttributeError"
    /\ mpc' = "crashed"
    /\ UNCHANGED <<otherVars, logs, merkle_tree, last_event_id, now, status,
                   current_step, response, tool_outcome, returned_root,
                   brain_calls, stop>>

\* The value json.loads gave is a dict.
Decoded == json_loads(response).loaded /\ json_loads(response).is_dict

\* Lines 190-192: if decision.get("finished"): break
DecisionFinished ==
    /\ mpc = "parse"
    /\ Decoded
    /\ Truthy(json_loads(response).finished)
    /\ stop' = "finished"
    /\ mpc' = "finish"
    /\ UNCHANGED <<otherVars, logs, merkle_tree, last_event_id, now, status,
                   current_step, response, tool_outcome, mission_raised,
                   returned_root, brain_calls>>

\* tool_name and tool_name in self.tools
ToolKnown(tool_name) == Truthy(tool_name) /\ tool_name.v \in Registry

\* Lines 194-197: the decision names a tool of the registry.
DecisionTool ==
    /\ mpc = "parse"
    /\ Decoded
    /\ ~Truthy(json_loads(response).finished)
    /\ ToolKnown(json_loads(response).tool)
    /\ mpc' = "dispatch"
    /\ UNCHANGED <<otherVars, logs, merkle_tree, last_event_id, now, status,
                   current_step, response, tool_outcome, mission_raised,
                   returned_root, brain_calls, stop>>

\* DecisionNoTool that records the invalid tool as an ERROR event.
DecisionNoTool_recorded ==
    /\ mpc = "parse"
    /\ Decoded
    /\ ~Truthy(json_loads(response).finished)
    /\ ~ToolKnown(json_loads(response).tool)
    /\ log_action("System", DictOf(""), Str("Invalid tool"), "ERROR", None_)
    /\ mpc' = "loop"
    /\ UNCHANGED <<otherVars, status, current_step, response, tool_outcome,
                   mission_raised, returned_root, brain_calls, stop>>

\* Lines 218-219: the decision names no tool of the registry; a line is
\* printed.
DecisionNoTool ==
    /\ mpc = "parse"
    /\ Decoded
    /\ ~Truthy(json_loads(response).finished)
    /\ ~ToolKnown(json_loads(response).tool)
    /\ mpc' = "loop"
    /\ UNCHANGED <<otherVars, logs, merkle_tree, last_event_id, now, status,
                   current_step, response, tool_outcome, mission_raised,
                   returned_root, brain_calls, stop>>

\* Lines 198-217: the tool is dispatched and does outcome.
Dispatch(outcome) ==
    /\ mpc = "dispatch"
    /\ outcome \in ToolOutcomes(json_loads(response).tool.v)
    /\ dispatch(json_loads(response).tool.v, outcome)
    /\ tool_outcome' = outcome
    /\ mpc' = "loop"
    /\ UNCHANGED <<otherVars, status, current_step, response, mission_raised,
                   returned_root, brain_calls, stop>>

\* Lines 221-224.
Finish ==
    /\ mpc = "finish"
    /\ returned_root' = get_current_root(merkle_tree)
    /\ status' = "completed"
    /\ mpc' = "done"
    /\ UNCHANGED <<otherVars, logs, merkle_tree, last_event_id, now,
                   current_step, response, tool_outcome, mission_raised,
                   brain_calls, stop>>

NextMission ==
    \/ StartMission
    \/ EnterStep
    \/ StepLimit
    \/ \E text \in BrainTexts : BrainAnswers(text)
    \/ BrainRaises
    \/ LogThought
    \/ ParseFails
    \/ DecisionNotDict
    \/ DecisionFinished
    \/ DecisionTool
    \/ DecisionNoTool
    \/ \E outcome \in {"returned", "returned_late", "raised",
                        "raised_timeout", "coroutine"} : Dispatch(outcome)
    \/ Finish

SpecMission == Init /\ [][NextMission]_vars

SpecMerkle == Init /\ [][NextMerkle]_vars

(***************************************************************************)
(* The documents specification: a session of up to MaxDocEvents events is  *)
(* exported, the event list of the document is rearranged, and the         *)
(* document is verified, by verify_session and by the verify command.      *)
(***************************************************************************)

\* logger.log_action(tool_name, {}, "ok", event_type, basis_id), the basis
\* being absent or the event recorded last.
Record(tool_name, event_type, basis_id) ==
    /\ SessionOpen
    /\ ~cli.ran
    /\ Len(logs) < MaxDocEvents
    /\ log_action(tool_name, DictOf(""), Str("ok"), event_type, basis_id)
    /\ raised' = ""
    /\ UNCHANGED <<merkleVars, docVars, extVars>>

\* The document as the recorder wrote it, not verified by the command.
Untouched == doc # NoDoc /\ doc.logs = original.logs /\ ~cli.ran

\* Event i of the document is written once more at its end.
AppendCopy(i) ==
    /\ Untouched
    /\ i \in 1..Len(doc.logs)
    /\ doc' = [doc EXCEPT !.logs = Append(@, @[i])]
    /\ result' = NoResult
    /\ UNCHANGED <<merkleVars, loggerVars, original, extVars>>

\* Event i of the document is taken out.
RemoveEvent(i) ==
    /\ Untouched
    /\ i \in 1..Len(doc.logs)
    /\ doc' = [doc EXCEPT !.logs =
                  SubSeq(@, 1, i - 1) \o SubSeq(@, i + 1, Len(@))]
    /\ result' = NoResult
    /\ UNCHANGED <<merkleVars, loggerVars, original, extVars>>

\* Events i and i + 1 of the document change places.
SwapEvents(i) ==
    /\ Untouched
    /\ i \in 1..(Len(doc.logs) - 1)
    /\ doc' = [doc EXCEPT !.logs[i] = doc.logs[i + 1],
                          !.logs[i + 1] = doc.logs[i]]
    /\ result' = NoResult
    /\ UNCHANGED <<merkleVars, loggerVars, original, extVars>>

\* veritas verify proof_file [--verbose]: the file is missing as long as
\* nothing was exported; an exported file holds the document or no JSON.
CliVerify(proof_file, verbose) ==
    /\ ~cli.ran
    /\ proof_file = "missing" <=> doc = NoDoc
    /\ cli' = verify(proof_file, doc, verbose)
    /\ UNCHANGED <<merkleVars, loggerVars, docVars, callVars, taskVars,
                   missionVars>>

NextDocs ==
    \/ \E tool_name \in ToolNames, event_type \in EventTypes,
          basis_id \in {None_, last_event_id} :
          Record(tool_name, event_type, basis_id)
    \/ Export
    \/ \E i \in 1..(MaxDocEvents + 1) : AppendCopy(i)
    \/ \E i \in 1..(MaxDocEvents + 1) : RemoveEvent(i)
    \/ \E i \in 1..(MaxDocEvents + 1) : SwapEvents(i)
    \/ NullRoot
    \/ AttachLeafHashes
    \/ Verify
    \/ \E proof_file \in {"missing", "unparsable", "document"},
          verbose \in BOOLEAN : CliVerify(proof_file, verbose)

SpecDocs == Init /\ [][NextDocs]_vars

(***************************************************************************)
(* Claims about the recorder and the verifier.                             *)
(***************************************************************************)

Verified == result.status # "none"
ReturnedValid == result.status = "returned" /\ result.valid
ReturnedInvalid == result.status = "returned" /\ ~result.valid

HasDetail(kind, i) ==
    \E k \in 1..Len(result.details) :
        result.details[k].kind = kind /\ result.details[k].i = i

\* Every basis_id of the session was absent or the id of an event recorded
\* before the call.
BasisKnown(entries) ==
    \A i \in 1..Len(entries) :
        \/ entries[i].basis_id = None_
        \/ \E j \in 1..(i - 1) : entries[j].id = entries[i].basis_id

\* C1: verify_session on the unmodified export of a non-empty session whose
\* basis_ids are absent or ids of earlier events returns valid = true, with
\* a 'Verified link' detail, and no warning, for every event with a basis_id.
RoundTrip ==
    (Verified /\ doc = original /\ logs # <<>> /\ BasisKnown(logs))
        => /\ ReturnedValid
           /\ \A i \in 1..Len(logs) :
                logs[i].basis_id # None_
                    => /\ HasDetail("Verified link", i - 1)
                       /\ ~HasDetail("Warning", i - 1)
                       /\ ~HasDetail("Broken link", i - 1)

\* An observation, then an action based on it, exported and verified.
RoundTripWitness ==
    /\ Verified
    /\ doc = original
    /\ Len(logs) = 2
    /\ logs[1].event_type = Str("OBSERVATION")
    /\ logs[2].event_type = Str("ACTION")
    /\ logs[2].basis_id = logs[1].id
    /\ ReturnedValid
    /\ HasDetail("Verified link", 1)

\* The document is the export with the value of one field of one event
\* changed, and session_root as exported.
OneFieldChanged ==
    /\ original # NoDoc
    /\ doc.session_root = original.session_root
    /\ Len(doc.logs) = Len(original.logs)
    /\ \E i \in 1..Len(doc.logs) :
         /\ DOMAIN doc.logs[i] = DOMAIN original.logs[i]
         /\ \E key \in DOMAIN doc.logs[i] :
              /\ doc.logs[i][key] # original.logs[i][key]
              /\ \A k \in (DOMAIN doc.logs[i]) \ {key} :
                   doc.logs[i][k] = original.logs[i][k]
         /\ \A j \in (1..Len(doc.logs)) \ {i} : doc.logs[j] = original.logs[j]

\* C2: changing the value of any field of any single event of an exported
\* session, session_root left untouched, makes verify_session return
\* valid = false.
TamperDetected ==
    (Verified /\ OneFieldChanged) => ReturnedInvalid

\* After such a change verify_session never returns valid = true.
TamperNeverAccepted ==
    (Verified /\ OneFieldChanged) => ~ReturnedValid

\* The ids of the events of a document.
DocIds(entries) ==
    {entries[i]["id"] : i \in {j \in 1..Len(entries) : "id" \in DOMAIN entries[j]}}

\* The event carries a basis_id.
HasBasis(log_entry) ==
    "basis_id" \in DOMAIN log_entry /\ log_entry["basis_id"] # None_

\* Event i of the document has a basis_id that is the id of none of its events.
BrokenLinkAt(i) ==
    /\ HasBasis(doc.logs[i])
    /\ doc.logs[i]["basis_id"] \notin DocIds(doc.logs)

\* C3: if an event of the document has a basis_id that is the id of no event
\* of the document, verify_session adds a 'Broken link' detail for it and
\* returns valid = false, whether or not the root matches.
BrokenLinkDetected ==
    \A i \in 1..Len(doc.logs) :
        (Verified /\ BrokenLinkAt(i))
            => ReturnedInvalid /\ HasDetail("Broken link", i - 1)

\* C4: verify_session returns valid = true only if every basis_id present
\* is the id of an event at a strictly earlier position of the document.
BackwardOnlyLinks ==
    ReturnedValid
        => \A i \in 1..Len(doc.logs) :
             HasBasis(doc.logs[i])
                 => \E j \in 1..(i - 1) :
                      /\ "id" \in DOMAIN doc.logs[j]
                      /\ doc.logs[j]["id"] = doc.logs[i]["basis_id"]

\* A leaf digest the document claims differs from the digest of its entry.
RowMismatch ==
    \E i \in 1..Len(doc.logs) :
        /\ i <= Len(doc.leaf_hashes)
        /\ doc.leaf_hashes[i] # hash(json_dumps(doc.logs[i]))

\* The root recomputed from the document's entries is the claimed root.
RootMatches == doc.session_root = Str(RootOver(doc.logs))

\* C5: validity is exactly (at least one event) and (no row-level
\* mismatch) and (recomputed root = claimed root) and (no broken link); an
\* ACTION without a basis_id adds a warning and leaves validity alone.
ValidityExact ==
    Verified
        => /\ result.status = "returned"
           /\ result.valid <=>
                /\ doc.logs # <<>>
                /\ ~RowMismatch
                /\ RootMatches
                /\ ~\E i \in 1..Len(doc.logs) : BrokenLinkAt(i)
           /\ \A i \in 1..Len(doc.logs) :
                (get(doc.logs[i], "event_type") = Str("ACTION")
                    /\ ~HasBasis(doc.logs[i]))
                    => HasDetail("Warning", i - 1)

\* C6: verify_session returns a result for every document; it never raises.
NeverRaises == result.status # "raised"

IsPrefix(s, t) == Len(s) <= Len(t) /\ \A i \in 1..Len(s) : s[i] = t[i]

\* The leaves of the recorder's tree are the serialized events, in order.
LeavesAreEvents ==
    merkle_tree.leaves = [i \in 1..Len(logs) |-> to_hashable_json(logs[i])]

level0(t) == IF t.tree = <<>> THEN <<>> ELSE t.tree[1]

\* C7: for a tree of N >= 1 leaves and an index i in 0..N-1,
\* verify_proof(x, get_proof(i), get_root()) is true when x is leaf i and
\* false for every other content x.
ProofSoundness ==
    (checked.done /\ proof.index \in 0..(Len(mt.leaves) - 1))
        => (checked.ok <=> checked.leaf = mt.leaves[proof.index + 1])

\* A proof of the last leaf of a three-leaf tree (its sibling is itself) was
\* verified for the leaf, and one was refused for another content.
ProofSoundnessWitness ==
    /\ checked.done
    /\ Len(mt.leaves) = 3
    /\ proof.index = 2
    /\ checked.leaf = mt.leaves[3]
    /\ checked.ok

\* C8: the root and the level-0 digests depend on the ordered leaf list
\* only: a tree made by the constructor and a tree grown leaf by leaf with
\* add_leaf agree on both whenever they hold the same leaves.
Determinism ==
    (ct.leaves = mt.leaves)
        => /\ get_root(ct) = get_root(mt)
           /\ level0(ct) = level0(mt)
           /\ Len(level0(mt)) = Len(mt.leaves)

DeterminismWitness ==
    /\ ct.leaves = mt.leaves
    /\ Len(mt.leaves) = 3
    /\ get_root(mt) # NoDigest

\* The node above nodes 2j-1 and 2j of a level, by the pairing rule.
PairAbove(level, j) ==
    hash(level[2 * j - 1]
         \o (IF 2 * j <= Len(level) THEN level[2 * j] ELSE level[2 * j - 1]))

\* The pairing rule holds between every two adjacent levels of t.tree.
PairingRule(t) ==
    \A k \in 1..(Len(t.tree) - 1) :
        /\ Len(t.tree[k + 1]) = (Len(t.tree[k]) + 1) \div 2
        /\ \A j \in 1..Len(t.tree[k + 1]) :
              t.tree[k + 1][j] = PairAbove(t.tree[k], j)

\* The roots of trees of one, three and five leaves, written out.
HandRoot(l) ==
    LET h(i)   == hash(l[i])
        n(x, y) == hash(x \o y)
    IN  CASE Len(l) = 1 -> h(1)
          [] Len(l) = 3 -> n(n(h(1), h(2)), n(h(3), h(3)))
          [] Len(l) = 5 -> n(n(n(h(1), h(2)), n(h(3), h(4))),
                             n(n(h(5), h(5)), n(h(5), h(5))))
          [] OTHER -> NoDigest

\* C9: adjacent nodes are paired left to right as H(left || right), an odd
\* last node is paired with itself, and the roots of trees of 1, 3 and 5
\* leaves are the values this rule gives.
OddDuplication ==
    /\ PairingRule(mt)
    /\ PairingRule(ct)
    /\ mt.leaves # <<>> => Len(mt.tree[Len(mt.tree)]) = 1
    /\ Len(mt.leaves) \in {1, 3, 5} => get_root(mt) = HandRoot(mt.leaves)
    /\ Len(ct.leaves) \in {1, 3, 5} => get_root(ct) = HandRoot(ct.leaves)

OddDuplicationWitness ==
    /\ Len(mt.leaves) = 5
    /\ Len(ct.leaves) = 3
    /\ Len(mt.tree) = 4
    /\ Len(mt.tree[2]) = 3

(***************************************************************************)
(* Claims about the calls of the recorder.                                 *)
(***************************************************************************)

\* The last event of the log.
last_entry(entries) == entries[Len(entries)]

\* C14: when the wrapped function raises, an ERROR event for the call is
\* appended to the log first, and then the exception reaches the caller.
ErrorRecordedFirst ==
    [][(raised = "" /\ raised' = "Exception")
          => /\ Len(logs') = Len(logs) + 1
             /\ last_entry(logs').event_type = Str("ERROR")
             /\ last_entry(logs').tool_name = Str("wrapped_tool")]_vars

\* The top digest of a tree over one, two or three leaves, written out.
TopDigest(l) ==
    LET h(i)    == hash(l[i])
        n(x, y) == hash(x \o y)
    IN  CASE Len(l) = 1 -> h(1)
          [] Len(l) = 2 -> n(h(1), h(2))
          [] Len(l) = 3 -> n(n(h(1), h(2)), n(h(3), h(3)))
          [] Len(l) = 4 -> n(n(h(1), h(2)), n(h(3), h(4)))

LeafHashStored ==
    \A i \in 1..Len(logs) :
        LET data   == to_hashable_json(logs[i])
            before == NewTree(SubSeq(merkle_tree.leaves, 1, i - 1))
        IN  /\ add_leaf_result(before, data) = Str(hash(data))
            /\ "leaf_hash" \in DOMAIN logs[i]
            /\ logs[i]["leaf_hash"] = Str(hash(data))

\* C19: last_event_id is None exactly while the log is empty, and after
\* every log_action (direct, observe, act or wrapped) it is the id of the
\* event appended last.
LastEventId ==
    /\ (last_event_id = None_) <=> (logs = <<>>)
    /\ logs # <<>> => last_event_id = last_entry(logs).id

\* Two events were logged, the second by a wrapped call.
LastEventIdWitness ==
    /\ Len(logs) = 2
    /\ logs[2].tool_name = Str("wrapped_tool")
    /\ last_event_id = logs[2].id
    /\ last_event_id # logs[1].id

\* C20: export_proofs is a snapshot: session_root is get_current_root(),
\* event_count the number of events, logs the events in append order; the
\* export leaves the log, the tree and last_event_id as they were.
ExportSnapshot ==
    [][(original = NoDoc /\ original' # NoDoc)
          => /\ original'.session_root = Str(get_current_root(merkle_tree))
             /\ original'.event_count = Len(logs)
             /\ Len(original'.logs) = Len(logs)
             /\ \A i \in 1..Len(logs) :
                  \A k \in EventKeys : original'.logs[i][k] = logs[i][k]
             /\ logs' = logs
             /\ merkle_tree' = merkle_tree
             /\ last_event_id' = last_event_id]_vars

\* A session of two events was exported.
ExportSnapshotWitness ==
    /\ original # NoDoc
    /\ original.event_count = 2
    /\ original.logs[1].id = logs[1].id
    /\ original.logs[2].id = logs[2].id
    /\ original.logs[1].id # original.logs[2].id

\* No task is inside log_action.
AllCallsFinished == \A t \in Tasks : pc[t] \in {"idle", "awaiting"}

ExpectedParams(args) ==
    CASE args = <<Num("1"), Num("2")>> ->
            DictOf("\"args\": [\"1\", \"2\"], \"kwargs\": {}")
      [] args = <<Str("ETH")>> ->
            DictOf("\"args\": [\"ETH\"], \"kwargs\": {}")
      [] args = <<>> ->
            DictOf("\"args\": [], \"kwargs\": {}")
      [] args = <<Num("5")>> ->
            DictOf("\"args\": [\"5\"], \"kwargs\": {}")

ExpectedOutput(f_result) ==
    CASE f_result = Num("3")  -> Str("3")
      [] f_result = Str("tx") -> Str("tx")
      [] f_result = None_     -> Str("None")
      [] f_result = Coroutine("10") -> Str("<coroutine object at 0x1>")

\* C12: a call of a wrapped function that returns normally gives the
\* caller the function's result unchanged and appends exactly one event,
\* with the configured tool name and event type, the captured arguments and
\* the result.
WrapReturnsResult ==
    [][wrapped_call' # wrapped_call
          => /\ wrapped_call'.returned = wrapped_call'.f_result
             /\ Len(logs') = Len(logs) + 1
             /\ IsPrefix(logs, logs')
             /\ Len(merkle_tree'.leaves) = Len(merkle_tree.leaves) + 1
             /\ LET e == last_entry(logs')
                IN  /\ e.tool_name = Str(wrapped_call'.name)
                    /\ e.event_type = Str(wrapped_call'.event_type)
                    /\ e.input_params = ExpectedParams(wrapped_call'.args)
                    /\ e.output_result = ExpectedOutput(wrapped_call'.f_result)]_vars

\* add(1, 2) returned 3 to its caller after an earlier event.
WrapReturnsResultWitness ==
    /\ wrapped_call.via = "wrap"
    /\ wrapped_call.args = <<Num("1"), Num("2")>>
    /\ wrapped_call.returned = Num("3")
    /\ wrapped_call.index = 2
    /\ Len(logs) = 2
    /\ logs[2].output_result = Str("3")
    /\ logs[2].tool_name = Str("wrapped_tool")

\* The event the last call of a wrapped function recorded.
CallEvent == logs[wrapped_call.index]

\* C13: a wrapped function called without an explicit basis_id records an
\* event whose basis_id is the recorder's last_event_id at the time of the
\* call; an explicitly passed basis_id overrides this default.
BasisDefaultsToLast ==
    wrapped_call.via = "wrap"
        => /\ ~wrapped_call.explicit
                => CallEvent.basis_id = wrapped_call.last_before
           /\ wrapped_call.explicit
                => CallEvent.basis_id = wrapped_call.basis

\* C13, amended: a wrapped function called without an explicit basis_id
\* records basis_id None; an explicitly passed basis_id is recorded as
\* passed; execute_action passes the recorder's last_event_id at the time of
\* the call, which the event then carries.
BasisAsPassed ==
    /\ (wrapped_call.via = "wrap" /\ ~wrapped_call.explicit)
          => CallEvent.basis_id = None_
    /\ (wrapped_call.via = "wrap" /\ wrapped_call.explicit)
          => CallEvent.basis_id = wrapped_call.basis
    /\ wrapped_call.via = "execute_action"
          => CallEvent.basis_id = wrapped_call.last_before

\* execute_action recorded an action based on the event before it.
BasisAsPassedWitness ==
    /\ wrapped_call.via = "execute_action"
    /\ wrapped_call.index = 2
    /\ wrapped_call.last_before = logs[1].id
    /\ logs[2].basis_id = logs[1].id

\* The ids of the events logged since the listener was handed over.
LoggedSince(n) == [i \in 1..(Len(logs) - n) |-> logs[n + i].id]

\* C15: a listener appended to the recorder's listeners list is called
\* exactly once per log_action, with the new entry, when last_event_id is
\* already that entry's id.
ListenersNotified ==
    subscribed_at >= 0
        => /\ received = LoggedSince(subscribed_at)
           /\ received # <<>> => received[Len(received)] = last_event_id

(***************************************************************************)
(* Claims about run_mission.                                               *)
(***************************************************************************)

\* C21: run_mission ends by returning the current root after at most
\* max_steps steps and brain calls; no failure of the brain call, of the
\* handling of the decision or of a tool leaves it as an exception, and the
\* agent does not stay in the running state.
MissionAlwaysReturns ==
    /\ mission_raised = ""
    /\ mpc # "crashed"
    /\ current_step <= MaxSteps
    /\ brain_calls <= MaxSteps
    /\ mpc = "done" => /\ returned_root = get_current_root(merkle_tree)
                       /\ status # "running"

\* C22: the terminal status tells why the mission stopped: it is the
\* completed status exactly when a decision signalled completion, and
\* another status when the step budget ran out.
TerminalStatusTellsWhy ==
    mpc = "done"
        => /\ (status = "completed") <=> (stop = "finished")
           /\ stop = "step_limit" => status # "completed"

\* C23: when the response cannot be decoded as a decision, run_mission
\* appends an ERROR event after the THOUGHT event holding the raw response,
\* dispatches no tool and runs no further step.
UndecodableRecorded ==
    [][(mpc = "parse" /\ response \in {"not json", "42"})
          => /\ mpc' = "finish"
             /\ Len(logs') = Len(logs) + 1
             /\ IsPrefix(logs, logs')
             /\ last_entry(logs').event_type = Str("ERROR")
             /\ last_entry(logs).event_type = Str("THOUGHT")
             /\ last_entry(logs).output_result = Str(response)
             /\ current_step' = current_step]_vars

\* The tool the decision of the step names.
NamedTool ==
    CASE response = "{\\\"tool\\\": \\\"get_balance\\\"}" -> Str("get_balance")
      [] response = "{\\\"tool\\\": \\\"aave_supply\\\"}" -> Str("aave_supply")
      [] response = "{\\\"tool\\\": \\\"ghost_tool\\\"}" -> Str("ghost_tool")
      [] OTHER -> None_

ThoughtFirst ==
    /\ \A i \in 1..Len(logs) :
         logs[i].event_type \in {Str("ERROR"), Str("ACTION")}
            => i > 1 /\ logs[i - 1].event_type = Str("THOUGHT")
    /\ mpc \in {"parse", "dispatch"}
         => /\ logs # <<>>
            /\ last_entry(logs).event_type = Str("THOUGHT")
            /\ last_entry(logs).output_result = Str(response)

\* C26: in every step the raw response is appended as a THOUGHT event whose
\* basis_id is the last_event_id held before the append, before the
\* response is parsed; every ERROR or ACTION event of a step is preceded in
\* the log by the step's THOUGHT event.
ThoughtBeforeParse ==
    /\ [](ThoughtFirst)
    /\ [][mpc = "log_thought"
             => /\ mpc' = "parse"
                /\ Len(logs') = Len(logs) + 1
                /\ IsPrefix(logs, logs')
                /\ last_entry(logs').event_type = Str("THOUGHT")
                /\ last_entry(logs').tool_name = Str("Brain")
                /\ last_entry(logs').output_result = Str(response)
                /\ last_entry(logs').basis_id = last_event_id]_vars

\* The second step's THOUGHT is based on the ACTION event of the first.
ThoughtBeforeParseWitness ==
    /\ Len(logs) = 3
    /\ logs[1].event_type = Str("THOUGHT")
    /\ logs[1].basis_id = None_
    /\ logs[2].event_type = Str("ACTION")
    /\ logs[3].event_type = Str("THOUGHT")
    /\ logs[3].basis_id = logs[2].id
    /\ mpc = "parse"

DeadlineEnforced ==
    [][(mpc = "dispatch" /\ tool_outcome' = "returned_late")
          => /\ last_entry(logs').event_type = Str("ERROR")
             /\ last_entry(logs').tool_name = NamedTool
             /\ last_entry(logs').output_result
                   = Str("Error: Tool execution timed out after 15s")
             /\ mpc' = "loop"]_vars

\* What the caller of an asynchronous callable is after: the value the
\* coroutine gives when it has run to its end.
Completed(f_result) ==
    IF f_result.t = "coroutine" THEN Num(f_result.v) ELSE f_result

\* C29: for an asynchronous wrapped callable, the event records the
\* completed result of the callable, and the caller, call_tool through
\* execute_action included, receives that completed result.
AsyncResultRecorded ==
    (wrapped_call # NoCall /\ wrapped_call.f_result.t = "coroutine")
        => /\ CallEvent.output_result
                 = Str(py_str(Completed(wrapped_call.f_result)))
           /\ wrapped_call.returned = Completed(wrapped_call.f_result)

(***************************************************************************)
(* Claims about documents and the verify command.                          *)
(***************************************************************************)

\* The rows of the table that show a detail: the content rows --verbose
\* adds have an empty status column.
DetailRows == SelectSeq(cli.rows, LAMBDA row : row.status # "")

\* C25: the verify command exits with a non-zero code when the file is
\* missing or unparsable and when verify_session reports valid = false,
\* exits with zero when it reports valid = true, and its table has one
\* row for every detail the verifier returned, in their order.
CliSurfacesFindings ==
    cli.ran
        => /\ cli.proof_file \in {"missing", "unparsable"}
                => cli.exit_code # 0
           /\ cli.report.status = "returned"
                => /\ cli.exit_code = 0 <=> cli.report.valid
                   /\ Len(DetailRows) = Len(cli.report.details)
                   /\ \A k \in 1..Len(DetailRows) :
                         DetailRows[k].check
                             = detail_text(doc, cli.report.details[k])

\* The command rejected a document with several findings and showed them
\* all.
CliSurfacesFindingsWitness ==
    /\ cli.ran
    /\ cli.proof_file = "document"
    /\ cli.report.status = "returned"
    /\ ~cli.report.valid
    /\ cli.exit_code = 1
    /\ Len(cli.report.details) >= 4
    /\ Len(DetailRows) = Len(cli.report.details)

\* C30: a document that carries the session root the recorder produced
\* and that verify_session accepts holds exactly the recorded events, in
\* their order: none was appended, duplicated, removed or moved, and the
\* ids of its events are pairwise distinct.
FingerprintComplete ==
    (ReturnedValid /\ original # NoDoc
                   /\ doc.session_root = original.session_root)
        => /\ doc.logs = original.logs
           /\ \A i, j \in 1..Len(doc.logs) :
                 i # j => doc.logs[i].id # doc.logs[j].id

====
